---- MODULE Spec2Model ----
(***************************************************************************)
(* A model of the YouTube downloader service: video_downloader.py          *)
(* (VideoDownloader) and app.py (the Flask routes).                        *)
(*                                                                         *)
(* Python strings are sequences of one-character strings, so that          *)
(* formatting, parsing, concatenation and regular-expression matching are  *)
(* computed and not assumed.  Python's None is NoneVal for numeric fields. *)
(***************************************************************************)
EXTENDS Integers, Sequences, FiniteSets, TLC

VARIABLES
    \* ---- VideoDownloader.get_video_info (format selection)
    formats,            \* info.get('formats', []): the raw format list
    fpc,                \* position in get_video_info
    fi,                 \* index of the next raw format of the loop (1-based)
    processed_formats,  \* the dict, as its entries in insertion order
    video_info,         \* what get_video_info returned
    \* ---- the filename stem (download_video, get_direct_download_url)
    title,              \* info.get('title', ...)
    tpc,                \* "start" until the stem is derived, then "done"
    stem,               \* safe_title
    \* ---- VideoDownloader.format_duration
    duration_seconds,   \* the argument
    upc,                \* "start" until format_duration returned, then "done"
    formatted,          \* the string returned
    \* ---- VideoDownloader.is_valid_youtube_url
    url,                \* the argument
    vpc,                \* "start" until is_valid_youtube_url returned, then "done"
    valid,              \* the truth value returned
    \* ---- VideoDownloader.download_video, one call per request
    clock,              \* time.time(), in seconds
    dir,                \* the downloads directory: file name -> ctime
    log,                \* the exception texts written to the server log
    dpc,                \* each call's position
    dargs,              \* each call's arguments
    dsafe,              \* each call's safe_title
    downloaded_files,   \* each call's list of recent files
    dresult,            \* what each call returned
    produced,           \* the file each call's extractor run wrote, and when
    \* ---- app.py: one request and its handling
    hreq,               \* the request: endpoint and body (or file name)
    hpc,                \* the handler's position
    hdata,              \* data = request.get_json()
    response,           \* the response sent
    extractor_calls     \* the invocations of the external extractor so far

fvars == <<formats, fpc, fi, processed_formats, video_info>>
tvars == <<title, tpc, stem>>
uvars == <<duration_seconds, upc, formatted>>
vvars == <<url, vpc, valid>>
dvars == <<clock, dir, log, dpc, dargs, dsafe, downloaded_files, dresult, produced>>
hvars == <<hreq, hpc, hdata, response, extractor_calls>>
vars == <<fvars, tvars, uvars, vvars, dvars, hvars>>

\* What the operations of one part leave alone: the other parts
notF == <<tvars, uvars, vvars, dvars, hvars>>
notT == <<fvars, uvars, vvars, dvars, hvars>>
notU == <<fvars, tvars, vvars, dvars, hvars>>
notV == <<fvars, tvars, uvars, dvars, hvars>>
notD == <<fvars, tvars, uvars, vvars, hreq, hpc, hdata, response>>
notDH == <<fvars, tvars, uvars, vvars>>

\* ------------------------------------------------------------------------
\* Characters and strings
\* ------------------------------------------------------------------------

DigitChars == <<"0", "1", "2", "3", "4", "5", "6", "7", "8", "9">>
LowerChars == <<"a", "b", "c", "d", "e", "f", "g", "h", "i", "j", "k", "l", "m",
                "n", "o", "p", "q", "r", "s", "t", "u", "v", "w", "x", "y", "z">>
UpperChars == <<"A", "B", "C", "D", "E", "F", "G", "H", "I", "J", "K", "L", "M",
                "N", "O", "P", "Q", "R", "S", "T", "U", "V", "W", "X", "Y", "Z">>

Range(s) == {s[i] : i \in 1..Len(s)}

IsDigit(c) == c \in Range(DigitChars)
IsLower(c) == c \in Range(LowerChars)
IsUpper(c) == c \in Range(UpperChars)

IndexIn(s, c) == CHOOSE i \in 1..Len(s) : s[i] = c

\* str.upper() and str.lower(), character by character
UpperChar(c) == IF IsLower(c) THEN UpperChars[IndexIn(LowerChars, c)] ELSE c
LowerChar(c) == IF IsUpper(c) THEN LowerChars[IndexIn(UpperChars, c)] ELSE c
Upper(s) == [i \in 1..Len(s) |-> UpperChar(s[i])]
Lower(s) == [i \in 1..Len(s) |-> LowerChar(s[i])]

\* s[from:] and s[:n]
Drop(s, n) == IF n >= Len(s) THEN <<>> ELSE SubSeq(s, n + 1, Len(s))
Take(s, n) == IF n >= Len(s) THEN s ELSE SubSeq(s, 1, n)

\* s.startswith(p)
StartsWith(s, p) == Len(s) >= Len(p) /\ SubSeq(s, 1, Len(p)) = p

\* p in s (substring test)
Contains(s, p) == \E i \in 0..(Len(s) - Len(p)) : SubSeq(s, i + 1, i + Len(p)) = p

\* s.split(c)[0]: the text before the first c (all of s when c does not occur)
SplitFirst(s, c) ==
    IF c \in Range(s)
    THEN LET i == CHOOSE k \in 1..Len(s) : s[k] = c /\ \A j \in 1..(k - 1) : s[j] # c
         IN  SubSeq(s, 1, i - 1)
    ELSE s

\* f"{n}" / f"{n:d}" of a non-negative integer
RECURSIVE IntToStr(_)
IntToStr(n) ==
    IF n < 10 THEN <<DigitChars[n + 1]>>
    ELSE IntToStr(n \div 10) \o <<DigitChars[(n % 10) + 1]>>

\* int(s) of a string of decimal digits
RECURSIVE StrToInt(_)
StrToInt(s) ==
    IF s = <<>> THEN 0
    ELSE 10 * StrToInt(SubSeq(s, 1, Len(s) - 1)) + (IndexIn(DigitChars, s[Len(s)]) - 1)

\* ------------------------------------------------------------------------
\* Python values
\* ------------------------------------------------------------------------

\* None in a numeric field
NoneVal == -1

\* bool(x) of a number or None
Truthy(x) == x # NoneVal /\ x # 0

\* a or b
PyOr(a, b) == IF Truthy(a) THEN a ELSE b

\* String literals of video_downloader.py
S_none == <<"n", "o", "n", "e">>
S_video == <<"v", "i", "d", "e", "o">>
S_audio == <<"a", "u", "d", "i", "o">>
S_sb == <<"s", "b">>
S_p == <<"p">>
S_with_audio == <<"(", "w", "i", "t", "h", " ", "a", "u", "d", "i", "o", ")">>
S_Audio_ == <<"A", "u", "d", "i", "o", " ">>
S_kbps == <<"k", "b", "p", "s">>
S_mp4 == <<"m", "p", "4">>
S_webm == <<"w", "e", "b", "m">>
S_m4a == <<"m", "4", "a">>
S_avc1 == <<"a", "v", "c", "1">>
S_mp4a == <<"m", "p", "4", "a">>

\* ------------------------------------------------------------------------
\* get_video_info: the raw formats the extractor may report
\* ------------------------------------------------------------------------

\* abr is kept in tenths of kbps (a float in the source): 1285 is 128.5 kbps
Fmt(id, h, e, v, a, fs, fsa, t, ab) ==
    [format_id |-> id, height |-> h, width |-> 0, ext |-> e, vcodec |-> v,
     acodec |-> a, filesize |-> fs, filesize_approx |-> fsa, tbr |-> t, abr10 |-> ab]

Candidates ==
    { \* combined 720p, one deduplication key: sizes tie at 1000, one has no size
      Fmt(<<"1", "8">>, 720, S_mp4, S_avc1, S_mp4a, 1000, 0, 5, 0),
      Fmt(<<"2", "2">>, 720, S_mp4, S_avc1, S_mp4a, NoneVal, 0, 1, 0),
      Fmt(<<"5", "9">>, 720, S_mp4, S_avc1, S_mp4a, 0, 0, NoneVal, 0),
      \* combined 720p in another container
      Fmt(<<"4", "3">>, 720, S_webm, S_avc1, S_mp4a, 1000, 0, 0, 0),
      \* video-only 720p
      Fmt(<<"1", "3", "6">>, 720, S_mp4, S_avc1, S_none, 1000, 0, 0, 0),
      Fmt(<<"2", "9", "8">>, 720, S_mp4, S_avc1, S_none, NoneVal, 2000, NoneVal, 0),
      \* 1080p, video-only and combined
      Fmt(<<"1", "3", "7">>, 1080, S_mp4, S_avc1, S_none, 1000, 0, 0, 0),
      Fmt(<<"3", "7">>, 1080, S_mp4, S_avc1, S_mp4a, 0, 2000, NoneVal, 0),
      \* audio-only: 128.5 and 128.9 kbps share a label, one without abr
      Fmt(<<"1", "4", "0">>, NoneVal, S_m4a, S_none, S_mp4a, 0, 0, NoneVal, 1285),
      Fmt(<<"1", "3", "9">>, NoneVal, S_m4a, S_none, S_mp4a, 0, 0, 1, 1289),
      Fmt(<<"2", "5", "1">>, NoneVal, S_webm, S_none, S_mp4a, 2000, 0, 0, 0),
      \* audio-only under the 128 kbps label again, with a size
      Fmt(<<"1", "4", "1">>, NoneVal, S_m4a, S_none, S_mp4a, 3000, 0, 0, 1280),
      \* skipped: no id, a storyboard, a height below 144
      Fmt(<<>>, 720, S_mp4, S_avc1, S_mp4a, 2000, 0, 0, 0),
      Fmt(<<"s", "b", "0">>, 720, S_mp4, S_avc1, S_none, 2000, 0, 0, 0),
      Fmt(<<"1", "7">>, 143, S_mp4, S_avc1, S_mp4a, 2000, 0, 0, 0),
      Fmt(<<"1", "6", "0">>, 143, S_mp4, S_avc1, S_none, 2000, 0, 0, 0) }

\* The longest raw format list
MaxFormats == 3

RECURSIVE SeqsUpTo(_, _)
SeqsUpTo(S, n) ==
    IF n = 0 THEN {<<>>}
    ELSE LET shorter == SeqsUpTo(S, n - 1)
         IN  shorter \cup {Append(s, x) : s \in {t \in shorter : Len(t) = n - 1}, x \in S}

\* ------------------------------------------------------------------------
\* get_video_info: filter, classify, score, deduplicate, sort
\* ------------------------------------------------------------------------

\* The least height of a usable video format
MinHeight == 144

\* filesize = fmt.get('filesize', 0) or fmt.get('filesize_approx', 0)
Filesize(fmt) == PyOr(fmt.filesize, fmt.filesize_approx)

\* if not format_id or format_id.startswith('sb'): continue
Unusable(fmt) == fmt.format_id = <<>> \/ StartsWith(fmt.format_id, S_sb)

\* A height test that takes any nonzero height
HeightOk_AnyHeight(fmt) == Truthy(fmt.height)

\* height and height >= 144
HeightOk(fmt) == Truthy(fmt.height) /\ fmt.height >= MinHeight

\* The branches of the classification; "skip" is the final else: continue
Branch(fmt) ==
    IF fmt.vcodec # S_none /\ fmt.acodec # S_none /\ HeightOk(fmt) THEN "combined"
    ELSE IF fmt.vcodec # S_none /\ HeightOk(fmt) THEN "video_only"
    ELSE IF fmt.acodec # S_none /\ fmt.vcodec = S_none THEN "audio"
    ELSE "skip"

FormatType(fmt) == IF Branch(fmt) = "audio" THEN S_audio ELSE S_video

\* int(abr) of the audio bitrate
IntAbr(fmt) == fmt.abr10 \div 10

Quality(fmt) ==
    CASE Branch(fmt) = "combined" ->
            IntToStr(fmt.height) \o S_p \o <<" ">> \o S_with_audio
      [] Branch(fmt) = "video_only" ->
            IntToStr(fmt.height) \o S_p
      [] OTHER ->
            IF Truthy(fmt.abr10)
            THEN S_Audio_ \o IntToStr(IntAbr(fmt)) \o S_kbps
            ELSE S_Audio_ \o <<"(">> \o Upper(fmt.ext) \o <<")">>

\* A key that tells formats apart by id instead of container
Key_ById(fmt) == FormatType(fmt) \o <<"_">> \o Quality(fmt) \o <<"_">> \o fmt.format_id

\* key = f"{format_type}_{quality}_{ext}"
Key(fmt) == FormatType(fmt) \o <<"_">> \o Quality(fmt) \o <<"_">> \o fmt.ext

\* current_score = filesize or (tbr * 1000 if tbr else 0)
CurrentScore(fmt) ==
    IF Truthy(Filesize(fmt)) THEN Filesize(fmt)
    ELSE IF Truthy(fmt.tbr) THEN fmt.tbr * 1000 ELSE 0

\* existing_score = stored filesize or (stored tbr * 1000); None * 1000 is a
\* TypeError, which get_video_info's except turns into a None result
ExistingScoreRaises(e) == ~Truthy(e.filesize) /\ e.tbr = NoneVal
ExistingScore(e) == IF Truthy(e.filesize) THEN e.filesize ELSE e.tbr * 1000

\* A comparison that lets a later format of equal score replace the stored one
Replaces_OnTie(current, existing) == current >= existing

\* key not in processed_formats or current_score > existing_score
Replaces(current, existing) == current > existing

\* The dict value stored for a format (filesize_mb, a display field, is left out)
Entry(fmt) ==
    [key |-> Key(fmt), format_id |-> fmt.format_id, quality |-> Quality(fmt),
     ext |-> fmt.ext, type |-> FormatType(fmt), filesize |-> Filesize(fmt),
     tbr |-> fmt.tbr, height |-> fmt.height, width |-> fmt.width]

\* The position of key k in the dict, 0 when absent
KeyIndex(pf, k) ==
    IF \E i \in 1..Len(pf) : pf[i].key = k
    THEN CHOOSE i \in 1..Len(pf) : pf[i].key = k
    ELSE 0

\* One iteration of "for fmt in formats": the dict afterwards, or raised.
\* A dict assignment to a present key keeps the key's position.
LoopBody(pf, fmt) ==
    IF Unusable(fmt) \/ Branch(fmt) = "skip" THEN [raised |-> FALSE, pf |-> pf]
    ELSE LET i == KeyIndex(pf, Key(fmt))
         IN  IF i = 0 THEN [raised |-> FALSE, pf |-> Append(pf, Entry(fmt))]
             ELSE IF ExistingScoreRaises(pf[i]) THEN [raised |-> TRUE, pf |-> pf]
             ELSE IF Replaces(CurrentScore(fmt), ExistingScore(pf[i]))
                  THEN [raised |-> FALSE, pf |-> [pf EXCEPT ![i] = Entry(fmt)]]
                  ELSE [raised |-> FALSE, pf |-> pf]

IsVideo(e) == e.type = S_video

\* A sort key that orders by resolution alone
format_priority_HeightOnly(e) ==
    <<FALSE,
      IF "p" \in Range(e.quality) THEN StrToInt(SplitFirst(e.quality, "p")) ELSE 0>>

\* format_priority: (has_audio, quality_num)
format_priority(e) ==
    <<Contains(e.quality, S_with_audio),
      IF "p" \in Range(e.quality) THEN StrToInt(SplitFirst(e.quality, "p")) ELSE 0>>

\* Tuple order of (bool, int) keys, False < True
KeyLess(a, b) == (~a[1] /\ b[1]) \/ (a[1] = b[1] /\ a[2] < b[2])

\* An insertion that puts e ahead of the elements of equal key
RECURSIVE InsertDesc_AheadOfEqual(_, _)
InsertDesc_AheadOfEqual(s, e) ==
    IF s = <<>> THEN <<e>>
    ELSE IF ~KeyLess(format_priority(e), format_priority(Head(s)))
         THEN <<e>> \o s
         ELSE <<Head(s)>> \o InsertDesc_AheadOfEqual(Tail(s), e)

\* Insert e behind every element whose key is not less than e's
RECURSIVE InsertDesc(_, _)
InsertDesc(s, e) ==
    IF s = <<>> THEN <<e>>
    ELSE IF KeyLess(format_priority(Head(s)), format_priority(e))
         THEN <<e>> \o s
         ELSE <<Head(s)>> \o InsertDesc(Tail(s), e)

\* list.sort(key=format_priority, reverse=True): stable, greatest key first
RECURSIVE SortVideo(_)
SortVideo(s) ==
    IF s = <<>> THEN <<>>
    ELSE InsertDesc(SortVideo(SubSeq(s, 1, Len(s) - 1)), s[Len(s)])

\* video_info['formats'] = video_formats + audio_formats
FinalFormats(pf) ==
    SortVideo(SelectSeq(pf, IsVideo)) \o SelectSeq(pf, LAMBDA e : ~IsVideo(e))

Pending == [returned |-> "pending", formats |-> <<>>]
ReturnedNone == [returned |-> "None", formats |-> <<>>]

FormatsInit ==
    /\ formats \in SeqsUpTo(Candidates, MaxFormats)
    /\ fpc = "extract"
    /\ fi = 1
    /\ processed_formats = <<>>
    /\ video_info = Pending

FormatsIdle ==
    /\ formats = <<>>
    /\ fpc = "idle"
    /\ fi = 1
    /\ processed_formats = <<>>
    /\ video_info = Pending

\* info = ydl.extract_info(url, download=False) returned the metadata
ExtractInfo ==
    /\ fpc = "extract"
    /\ fpc' = "loop"
    /\ UNCHANGED <<formats, fi, processed_formats, video_info>>
    /\ UNCHANGED notF

\* extract_info returned nothing (if not info: return None), or raised and
\* the except logged it and returned None
ExtractFails ==
    /\ fpc = "extract"
    /\ fpc' = "done"
    /\ video_info' = ReturnedNone
    /\ UNCHANGED <<formats, fi, processed_formats>>
    /\ UNCHANGED notF

\* One iteration of the loop over the raw formats
ProcessFormat ==
    /\ fpc = "loop"
    /\ fi <= Len(formats)
    /\ LET r == LoopBody(processed_formats, formats[fi])
       IN  IF r.raised
           THEN /\ fpc' = "done"
                /\ video_info' = ReturnedNone
                /\ UNCHANGED <<fi, processed_formats>>
           ELSE /\ processed_formats' = r.pf
                /\ fi' = fi + 1
                /\ UNCHANGED <<fpc, video_info>>
    /\ UNCHANGED formats
    /\ UNCHANGED notF

\* After the loop: split, sort the video formats, return video_info
SortAndReturn ==
    /\ fpc = "loop"
    /\ fi > Len(formats)
    /\ fpc' = "done"
    /\ video_info' = [returned |-> "info", formats |-> FinalFormats(processed_formats)]
    /\ UNCHANGED <<formats, fi, processed_formats>>
    /\ UNCHANGED notF

FormatsNext == ExtractInfo \/ ExtractFails \/ ProcessFormat \/ SortAndReturn

\* ------------------------------------------------------------------------
\* The filename stem: safe_title
\* ------------------------------------------------------------------------

\* The longest stem
MaxStem == 50

\* \s on the characters of the model
IsSpace(c) == c \in {" ", "\t", "\n"}

\* \w on the characters of the model (ASCII letters, digits, underscore)
IsWord(c) == IsLower(c) \/ IsUpper(c) \/ IsDigit(c) \/ c = "_"

\* re.sub(r'[^\w\s-]', '', title)
RemoveUnsafe(s) == SelectSeq(s, LAMBDA c : IsWord(c) \/ IsSpace(c) \/ c = "-")

\* str.strip()
RECURSIVE LStrip(_)
LStrip(s) == IF s # <<>> /\ IsSpace(Head(s)) THEN LStrip(Tail(s)) ELSE s
RECURSIVE RStrip(_)
RStrip(s) ==
    IF s # <<>> /\ IsSpace(s[Len(s)]) THEN RStrip(SubSeq(s, 1, Len(s) - 1)) ELSE s
Strip(s) == RStrip(LStrip(s))

\* [-\s]
IsSeparator(c) == c = "-" \/ IsSpace(c)

\* The text behind the run of separators s starts with
RECURSIVE SkipRun(_)
SkipRun(s) == IF s # <<>> /\ IsSeparator(Head(s)) THEN SkipRun(Tail(s)) ELSE s

\* A substitution that replaces every separator by an underscore of its own
RECURSIVE CollapseRuns_EachChar(_)
CollapseRuns_EachChar(s) ==
    IF s = <<>> THEN <<>>
    ELSE IF IsSeparator(Head(s)) THEN <<"_">> \o CollapseRuns_EachChar(Tail(s))
    ELSE <<Head(s)>> \o CollapseRuns_EachChar(Tail(s))

\* re.sub(r'[-\s]+', '_', s): leftmost, longest runs
RECURSIVE CollapseRuns(_)
CollapseRuns(s) ==
    IF s = <<>> THEN <<>>
    ELSE IF IsSeparator(Head(s)) THEN <<"_">> \o CollapseRuns(SkipRun(s))
    ELSE <<Head(s)>> \o CollapseRuns(Tail(s))

\* safe_title = re.sub(r'[^\w\s-]', '', title).strip()
\* safe_title = re.sub(r'[-\s]+', '_', safe_title)[:50]
safe_title(t) == Take(CollapseRuns(Strip(RemoveUnsafe(t))), MaxStem)

\* The longest title built from TitleChars, and the length of the padding
\* that carries a title over the limit
MaxTitleLen == 3
PadLen == 50

TitleChars == {"a", "B", "7", "_", " ", "-", "!", "\t"}

RECURSIVE Repeat(_, _)
Repeat(c, n) == IF n = 0 THEN <<>> ELSE <<c>> \o Repeat(c, n - 1)

S_AmazingTitle ==
    <<"A", "m", "a", "z", "i", "n", "g", " ", "V", "i", "d", "e", "o", "!", "!", " ",
      "(", "2", "0", "2", "4", ")">>

\* Short titles, the same behind and ahead of a long run of letters, and the
\* documented example
Titles ==
    LET short == SeqsUpTo(TitleChars, MaxTitleLen)
    IN  short \cup {Repeat("x", PadLen) \o t : t \in short}
              \cup {t \o Repeat("x", PadLen) : t \in short}
              \cup {S_AmazingTitle}

TitleInit ==
    /\ title \in Titles
    /\ tpc = "start"
    /\ stem = <<>>

TitleIdle ==
    /\ title = <<>>
    /\ tpc = "idle"
    /\ stem = <<>>

\* The two assignments to safe_title
Sanitize ==
    /\ tpc = "start"
    /\ stem' = safe_title(title)
    /\ tpc' = "done"
    /\ UNCHANGED title
    /\ UNCHANGED notT

TitleNext == Sanitize

\* ------------------------------------------------------------------------
\* format_duration
\* ------------------------------------------------------------------------

S_Unknown == <<"U", "n", "k", "n", "o", "w", "n">>

\* f"{n:02d}"
Pad2(n) == IF n < 10 THEN <<"0">> \o IntToStr(n) ELSE IntToStr(n)

\* The minutes as the whole minutes since the start
Minutes_Total(d) == d \div 60

\* minutes = (duration_seconds % 3600) // 60
Minutes(d) == (d % 3600) \div 60

format_duration(d) ==
    IF ~Truthy(d) \/ d <= 0 THEN S_Unknown
    ELSE LET hours == d \div 3600
             seconds == d % 60
         IN  IF hours > 0
             THEN Pad2(hours) \o <<":">> \o Pad2(Minutes(d)) \o <<":">> \o Pad2(seconds)
             ELSE Pad2(Minutes(d)) \o <<":">> \o Pad2(seconds)

\* The durations up to MaxDuration, and some of a day and of a hundred hours
MaxDuration == 3730

Durations == (-3..MaxDuration) \cup {7199, 7200, 86399, 86400, 359999, 360000, 363725}

DurationInit ==
    /\ duration_seconds \in Durations
    /\ upc = "start"
    /\ formatted = <<>>

DurationIdle ==
    /\ duration_seconds = 0
    /\ upc = "idle"
    /\ formatted = <<>>

FormatDuration ==
    /\ upc = "start"
    /\ formatted' = format_duration(duration_seconds)
    /\ upc' = "done"
    /\ UNCHANGED duration_seconds
    /\ UNCHANGED notU

DurationNext == FormatDuration

\* ------------------------------------------------------------------------
\* is_valid_youtube_url: the four patterns and re.match
\* ------------------------------------------------------------------------

\* The pattern elements: a literal character, an optional group (?:...)? or
\* optional character c?, and the identifier [\w-]+
Lit(c) == [kind |-> "lit", ch |-> c, sub |-> <<>>]
Opt(p) == [kind |-> "opt", ch |-> "", sub |-> p]
IdPlus == [kind |-> "idplus", ch |-> "", sub |-> <<>>]
Lits(s) == [i \in 1..Len(s) |-> Lit(s[i])]

S_http == <<"h", "t", "t", "p">>
S_colon_slashes == <<":", "/", "/">>
S_www_dot == <<"w", "w", "w", ".">>
S_watch == <<"y", "o", "u", "t", "u", "b", "e", ".", "c", "o", "m", "/",
             "w", "a", "t", "c", "h", "?", "v", "=">>
S_shorts == <<"y", "o", "u", "t", "u", "b", "e", ".", "c", "o", "m", "/",
              "s", "h", "o", "r", "t", "s", "/">>
S_youtu_be == <<"y", "o", "u", "t", "u", ".", "b", "e", "/">>
S_embed == <<"y", "o", "u", "t", "u", "b", "e", ".", "c", "o", "m", "/",
             "e", "m", "b", "e", "d", "/">>

\* (?:https?://)?
P_scheme == Opt(Lits(S_http) \o <<Opt(<<Lit("s")>>)>> \o Lits(S_colon_slashes))
\* (?:www\.)?
P_www == Opt(Lits(S_www_dot))

youtube_patterns ==
    << <<P_scheme, P_www>> \o Lits(S_watch) \o <<IdPlus>>,
       <<P_scheme, P_www>> \o Lits(S_shorts) \o <<IdPlus>>,
       <<P_scheme>> \o Lits(S_youtu_be) \o <<IdPlus>>,
       <<P_scheme, P_www>> \o Lits(S_embed) \o <<IdPlus>> >>

\* [\w-]
IsIdChar(c) == IsWord(c) \/ c = "-"

\* A literal that matches in its own case only
LitMatches_CaseSensitive(c, x) == c = x

\* A literal of the pattern against a character of the text, re.IGNORECASE
LitMatches(c, x) == LowerChar(c) = LowerChar(x)

\* The positions at which a match of pattern p that starts at pos may end
RECURSIVE Ends(_, _, _)
Ends(p, s, pos) ==
    IF p = <<>> THEN {pos}
    ELSE LET tok == Head(p)
             after ==
                 CASE tok.kind = "lit" ->
                        IF pos <= Len(s) /\ LitMatches(tok.ch, s[pos]) THEN {pos + 1} ELSE {}
                   [] tok.kind = "opt" -> Ends(tok.sub, s, pos) \cup {pos}
                   [] OTHER ->
                        {q \in (pos + 1)..(Len(s) + 1) :
                            \A k \in pos..(q - 1) : IsIdChar(s[k])}
         IN  UNION {Ends(Tail(p), s, q) : q \in after}

\* re.match(pattern, url, re.IGNORECASE): a match at the start of the text
ReMatch(p, s) == Ends(p, s, 1) # {}

\* any(re.match(pattern, url, re.IGNORECASE) for pattern in youtube_patterns)
is_valid_youtube_url(u) ==
    \E n \in 1..Len(youtube_patterns) : ReMatch(youtube_patterns[n], u)

\* The texts the validator is tried on: junk, scheme, www, host and path,
\* identifier, each right, wrong or absent
UrlJunk == {<<>>, <<" ">>, <<"x">>}
UrlSchemes ==
    {<<>>, S_http \o S_colon_slashes, S_http \o <<"s">> \o S_colon_slashes,
     <<"H", "T", "T", "P", "S", ":", "/", "/">>, <<"f", "t", "p", ":", "/", "/">>,
     <<"h", "t", "t", "p", ":", "/">>}
UrlWww == {<<>>, S_www_dot, <<"W", "w", "W", ".">>, <<"w", "w", "w", "x">>}
UrlHosts ==
    {<<>>, S_watch, S_shorts, S_youtu_be, S_embed,
     <<"Y", "o", "u", "T", "u", "b", "e", ".", "C", "O", "M", "/",
       "W", "a", "t", "c", "h", "?", "V", "=">>,
     <<"Y", "O", "U", "T", "U", ".", "B", "E", "/">>,
     <<"y", "o", "u", "t", "u", "b", "e", ".", "c", "o", "m", "/",
       "w", "a", "t", "c", "h", "?", "x", "=">>,
     <<"y", "o", "u", "t", "u", "b", "e", "x", "c", "o", "m", "/",
       "e", "m", "b", "e", "d", "/">>,
     <<"m", ".", "y", "o", "u", "t", "u", "b", "e", ".", "c", "o", "m", "/",
       "s", "h", "o", "r", "t", "s", "/">>,
     <<"v", "i", "m", "e", "o", ".", "c", "o", "m", "/">>}
UrlIds == {<<>>, <<"a">>, <<"a", "-", "_", "9", "Z">>, <<"!">>, <<"a", "!", "b">>}

Urls == {j \o sc \o w \o h \o i :
            j \in UrlJunk, sc \in UrlSchemes, w \in UrlWww, h \in UrlHosts, i \in UrlIds}

UrlInit ==
    /\ url \in Urls
    /\ vpc = "start"
    /\ valid = FALSE

UrlIdle ==
    /\ url = <<>>
    /\ vpc = "idle"
    /\ valid = FALSE

Validate ==
    /\ vpc = "start"
    /\ valid' = is_valid_youtube_url(url)
    /\ vpc' = "done"
    /\ UNCHANGED url
    /\ UNCHANGED notV

UrlNext == Validate

\* ------------------------------------------------------------------------
\* download_video: the extractor's download and the scan of the directory
\* ------------------------------------------------------------------------

\* The age below which a file counts as recently created, in seconds
RecentWindow == 120

\* The step of the clock and its last value
TickSeconds == 60
MaxClock == 240

\* The calls that may run at the same time (one per request thread)
Calls == {"c1", "c2"}

S_gitkeep == <<".", "g", "i", "t", "k", "e", "e", "p">>
S_old_file == <<"o", "l", "d", ".", "m", "p", "4">>
S_default_title == <<"v", "i", "d", "e", "o">>
S_dot_mp4 == <<".", "m", "p", "4">>
S_dot_mp3 == <<".", "m", "p", "3">>

\* The text of an exception, str(e)
ExcText == "<exception text>"

\* The titles the extractor may report
DownloadTitles == {<<"a">>, <<"b", " ", "!">>}

\* The file the extractor writes for outtmpl '<downloads_dir>/<safe_title>.%(ext)s':
\* mp3 behind the FFmpegExtractAudio postprocessor, else the merged mp4
OutFile(safe, download_type) ==
    safe \o (IF download_type = "audio" THEN S_dot_mp3 ELSE S_dot_mp4)

\* The files a scan lists: os.listdir without '.gitkeep'
Listed(d) == DOMAIN d \ {S_gitkeep}

\* An age test that counts a file of exactly two minutes as recent
IsRecent_Inclusive(now, ctime) == now - ctime <= RecentWindow

\* file_age = current_time - os.path.getctime(file_path); file_age < 120
IsRecent(now, ctime) == now - ctime < RecentWindow

\* downloaded_files after the loop over os.listdir
RecentFiles(d, now) == {f \in Listed(d) : IsRecent(now, d[f])}

\* The oldest files of a set
Latest_Oldest(d, files) == {f \in files : \A g \in files : d[f] <= d[g]}

\* The files of a set that sort(key=getctime, reverse=True)[0] or
\* max(key=getctime) may return: those of the greatest ctime, whichever
\* os.listdir happened to list first
Latest(d, files) == {f \in files : \A g \in files : d[g] <= d[f]}

NoResult == [returned |-> FALSE, success |-> FALSE, filename |-> <<>>, error |-> <<>>]
Success(f) == [returned |-> TRUE, success |-> TRUE, filename |-> f, error |-> <<>>]
Failure(e) == [returned |-> TRUE, success |-> FALSE, filename |-> <<>>, error |-> e]

NotProduced == [name |-> <<>>, at |-> 0]

\* The directory before the calls: empty, the placeholder, or the
\* placeholder and a file of an earlier download
InitialDirs ==
    { <<>>,
      [f \in {S_gitkeep} |-> 0],
      [f \in {S_gitkeep, S_old_file} |-> 0] }

DownloadInit ==
    /\ clock = 0
    /\ dir \in InitialDirs
    /\ log = {}
    /\ dpc = [c \in Calls |-> "start"]
    /\ dargs \in [Calls -> [download_type : {"video", "audio"}]]
    /\ dsafe = [c \in Calls |-> <<>>]
    /\ downloaded_files = [c \in Calls |-> {}]
    /\ dresult = [c \in Calls |-> NoResult]
    /\ produced = [c \in Calls |-> NotProduced]

DownloadIdle ==
    /\ clock = 0
    /\ dir = <<>>
    /\ log = {}
    /\ dpc = [c \in Calls |-> "idle"]
    /\ dargs = [c \in Calls |-> [download_type |-> "video"]]
    /\ dsafe = [c \in Calls |-> <<>>]
    /\ downloaded_files = [c \in Calls |-> {}]
    /\ dresult = [c \in Calls |-> NoResult]
    /\ produced = [c \in Calls |-> NotProduced]

\* Time passes
Tick ==
    /\ clock < MaxClock
    /\ clock' = clock + TickSeconds
    /\ UNCHANGED <<dir, log, dpc, dargs, dsafe, downloaded_files, dresult, produced>>
    /\ UNCHANGED extractor_calls
    /\ UNCHANGED notD

\* except Exception as e: logged, and returned in the error of the result
DownloadRaises(c) ==
    /\ dpc' = [dpc EXCEPT ![c] = "done"]
    /\ log' = log \cup {ExcText}
    /\ dresult' = [dresult EXCEPT ![c] = Failure(<<"Download failed: ", ExcText>>)]

\* "Generate safe filename": temp_ydl.extract_info gives a title, or nothing
GenerateFilename(c) ==
    /\ dpc[c] = "start"
    /\ \E t \in DownloadTitles \cup {<<>>} :
          dsafe' = [dsafe EXCEPT ![c] = IF t = <<>> THEN S_default_title ELSE safe_title(t)]
    /\ dpc' = [dpc EXCEPT ![c] = "ready"]
    /\ UNCHANGED <<clock, dir, log, dargs, downloaded_files, dresult, produced>>
    /\ extractor_calls' = extractor_calls + 1
    /\ UNCHANGED notD

\* temp_ydl.extract_info raises
GenerateFilenameRaises(c) ==
    /\ dpc[c] = "start"
    /\ DownloadRaises(c)
    /\ UNCHANGED <<clock, dir, dargs, dsafe, downloaded_files, produced>>
    /\ extractor_calls' = extractor_calls + 1
    /\ UNCHANGED notD

\* ydl.download([url]) writes the output file (anew, or over a file of the
\* same name)
ExtractorDownloads(c) ==
    /\ dpc[c] = "ready"
    /\ LET f == OutFile(dsafe[c], dargs[c].download_type)
       IN  /\ dir' = [g \in DOMAIN dir \cup {f} |-> IF g = f THEN clock ELSE dir[g]]
           /\ produced' = [produced EXCEPT ![c] = [name |-> f, at |-> clock]]
    /\ dpc' = [dpc EXCEPT ![c] = "downloaded"]
    /\ UNCHANGED <<clock, log, dargs, dsafe, downloaded_files, dresult>>
    /\ extractor_calls' = extractor_calls + 1
    /\ UNCHANGED notD

\* ydl.download([url]) returns without a new file (the extractor found the
\* file already downloaded)
ExtractorSkips(c) ==
    /\ dpc[c] = "ready"
    /\ dpc' = [dpc EXCEPT ![c] = "downloaded"]
    /\ UNCHANGED <<clock, dir, log, dargs, dsafe, downloaded_files, dresult, produced>>
    /\ extractor_calls' = extractor_calls + 1
    /\ UNCHANGED notD

\* ydl.download([url]) raises
ExtractorRaises(c) ==
    /\ dpc[c] = "ready"
    /\ DownloadRaises(c)
    /\ UNCHANGED <<clock, dir, dargs, dsafe, downloaded_files, produced>>
    /\ extractor_calls' = extractor_calls + 1
    /\ UNCHANGED notD

\* current_time = time.time() and the loop over os.listdir
ListRecent(c) ==
    /\ dpc[c] = "downloaded"
    /\ downloaded_files' = [downloaded_files EXCEPT ![c] = RecentFiles(dir, clock)]
    /\ dpc' = [dpc EXCEPT ![c] = "listed"]
    /\ UNCHANGED <<clock, dir, log, dargs, dsafe, dresult, produced>>
    /\ UNCHANGED extractor_calls
    /\ UNCHANGED notD

\* if downloaded_files: the most recent of them; else the most recent file
\* of the directory; else the failure
PickFile(c) ==
    /\ dpc[c] = "listed"
    /\ IF downloaded_files[c] # {}
       THEN \E f \in Latest(dir, downloaded_files[c]) :
                dresult' = [dresult EXCEPT ![c] = Success(f)]
       ELSE IF Listed(dir) # {}
            THEN \E f \in Latest(dir, Listed(dir)) :
                     dresult' = [dresult EXCEPT ![c] = Success(f)]
            ELSE dresult' = [dresult EXCEPT ![c] =
                                Failure(<<"No downloaded file found in directory">>)]
    /\ dpc' = [dpc EXCEPT ![c] = "done"]
    /\ UNCHANGED <<clock, dir, log, dargs, dsafe, downloaded_files, produced>>
    /\ UNCHANGED extractor_calls
    /\ UNCHANGED notD

DownloadNext ==
    \/ Tick
    \/ \E c \in Calls : GenerateFilename(c)
    \/ \E c \in Calls : GenerateFilenameRaises(c)
    \/ \E c \in Calls : ExtractorDownloads(c)
    \/ \E c \in Calls : ExtractorSkips(c)
    \/ \E c \in Calls : ExtractorRaises(c)
    \/ \E c \in Calls : ListRecent(c)
    \/ \E c \in Calls : PickFile(c)

\* ------------------------------------------------------------------------
\* app.py: the routes
\* ------------------------------------------------------------------------

\* A value of a JSON body under a key: absent, null, a number or a string
Missing == [type |-> "missing", text |-> <<>>]
Null == [type |-> "null", text |-> <<>>]
Number == [type |-> "number", text |-> <<>>]
Str(t) == [type |-> "str", text |-> t]

S_valid_url == S_youtu_be \o <<"a">>
S_other_url == <<"x", ".", "c", "o", "/", "a">>

UrlFields ==
    {Missing, Null, Number, Str(<<>>), Str(<<" ">>), Str(S_valid_url),
     Str(<<" ">> \o S_valid_url \o <<" ">>), Str(S_other_url)}
FormatIdFields == {Missing, Null, Str(<<>>), Str(<<"1", "8">>)}
DownloadTypeFields == {Missing, Str(S_video), Str(S_audio)}

\* The bodies of a POST: none that parses as JSON, the JSON null, an object
Bodies ==
    {[kind |-> k, url |-> Missing, format_id |-> Missing, download_type |-> Missing] :
        k \in {"nojson", "null"}}
    \cup
    {[kind |-> "dict", url |-> u, format_id |-> f, download_type |-> t] :
        u \in UrlFields, f \in FormatIdFields, t \in DownloadTypeFields}

PostEndpoints == {"get_video_info", "download", "server_download"}

Requests ==
    {[endpoint |-> e, body |-> b, filename |-> <<>>] : e \in PostEndpoints, b \in Bodies}
    \cup
    {[endpoint |-> "download_file",
      body |-> [kind |-> "nojson", url |-> Missing, format_id |-> Missing,
                download_type |-> Missing],
      filename |-> f] : f \in {S_old_file, <<"n", "o">>}}

NoResponse == [status |-> 0, success |-> FALSE, error |-> <<>>]
Ok == [status |-> 200, success |-> TRUE, error |-> <<>>]
Error(code, message) == [status |-> code, success |-> FALSE, error |-> message]

\* data.get(key, default) of the three keys
GetUrl(body) == body.url
\* data.get('url', '').strip() raises AttributeError on None and on a number
StripRaises(v) == v.type \in {"null", "number"}
StrippedUrl(v) == IF v.type = "missing" THEN <<>> ELSE Strip(v.text)
\* bool(format_id)
FormatIdGiven(v) == v.type = "number" \/ (v.type = "str" /\ v.text # <<>>)
\* data.get('download_type', 'video')
DownloadType(v) == IF v.type = "missing" THEN S_video ELSE v.text

\* not data: None, or an object without keys
NotData(data, body) ==
    \/ data = "None"
    \/ body.url = Missing /\ body.format_id = Missing /\ body.download_type = Missing

\* The message of each route's "except Exception as e"
ExceptMessage(endpoint) ==
    CASE endpoint = "get_video_info" ->
            <<"An error occurred while fetching video information. Please try again.">>
      [] endpoint = "download" ->
            <<"An error occurred while preparing the download. Please try again.">>
      [] endpoint = "server_download" -> <<"Server error: ", ExcText>>
      [] OTHER -> <<"File serving error">>

\* A validation that does not look at the shape of the url
Validation_AnyUrl(endpoint, data, body) ==
    IF endpoint = "server_download" /\ NotData(data, body) THEN "no_data"
    ELSE IF data = "None" THEN "raises"
    ELSE IF StripRaises(GetUrl(body)) THEN "raises"
    ELSE IF endpoint = "get_video_info"
         THEN IF StrippedUrl(GetUrl(body)) = <<>> THEN "no_url" ELSE ""
    ELSE IF StrippedUrl(GetUrl(body)) = <<>> \/ ~FormatIdGiven(body.format_id)
         THEN "missing"
    ELSE ""

\* What validation answers, "" when the request passes.  The order is the
\* code's: the body, the url's strip, the required fields, the url's shape.
Validation(endpoint, data, body) ==
    IF endpoint = "server_download" /\ NotData(data, body) THEN "no_data"
    ELSE IF data = "None" THEN "raises"
    ELSE IF StripRaises(GetUrl(body)) THEN "raises"
    ELSE IF endpoint = "get_video_info"
         THEN IF StrippedUrl(GetUrl(body)) = <<>> THEN "no_url"
              ELSE IF ~is_valid_youtube_url(StrippedUrl(GetUrl(body))) THEN "bad_url"
              ELSE ""
    ELSE IF StrippedUrl(GetUrl(body)) = <<>> \/ ~FormatIdGiven(body.format_id)
         THEN "missing"
    ELSE IF ~is_valid_youtube_url(StrippedUrl(GetUrl(body))) THEN "bad_url"
    ELSE ""

ValidationMessage(endpoint, v) ==
    CASE v = "no_data" -> <<"No data received">>
      [] v = "no_url" -> <<"Please provide a valid YouTube URL">>
      [] v = "missing" /\ endpoint = "download" ->
            <<"Missing required parameters. Please select a format and try again.">>
      [] v = "missing" -> <<"Missing required parameters">>
      [] v = "bad_url" /\ endpoint = "get_video_info" ->
            <<"Please provide a valid YouTube URL. Supported formats: youtube.com/watch, youtu.be, youtube.com/shorts, youtube.com/embed">>
      [] OTHER -> <<"Please provide a valid YouTube URL">>

\* The failures get_direct_download_url returns without an exception
DirectFailures ==
    { <<"Unable to extract video information">>,
      <<"No video information found">>,
      <<"No suitable audio format found for download">>,
      <<"Unable to get direct download URL">> }

HttpInit ==
    /\ hreq \in Requests
    /\ hpc = "received"
    /\ hdata = "unset"
    /\ response = NoResponse
    /\ extractor_calls = 0

HttpIdle ==
    /\ hreq = [endpoint |-> "none",
               body |-> [kind |-> "nojson", url |-> Missing, format_id |-> Missing,
                         download_type |-> Missing],
               filename |-> <<>>]
    /\ hpc = "idle"
    /\ hdata = "unset"
    /\ response = NoResponse
    /\ extractor_calls = 0

\* The directory of a server with one request: no download is running
HttpDownloadInit ==
    /\ clock = 0
    /\ dir \in InitialDirs
    /\ log = {}
    /\ dpc = [c \in Calls |-> "idle"]
    /\ dargs = [c \in Calls |-> [download_type |-> "video"]]
    /\ dsafe = [c \in Calls |-> <<>>]
    /\ downloaded_files = [c \in Calls |-> {}]
    /\ dresult = [c \in Calls |-> NoResult]
    /\ produced = [c \in Calls |-> NotProduced]

\* A route's except clause: the exception is logged and answered with 500
RouteExcept ==
    /\ log' = log \cup {ExcText}
    /\ response' = Error(500, ExceptMessage(hreq.endpoint))
    /\ hpc' = "responded"

\* data = request.get_json() returns the object or None
GetJson ==
    /\ hpc = "received"
    /\ hreq.endpoint \in PostEndpoints
    /\ hdata' = IF hreq.body.kind = "dict" THEN "dict" ELSE "None"
    /\ hpc' = "parsed"
    /\ UNCHANGED <<hreq, response, extractor_calls>>
    /\ UNCHANGED <<dvars, notDH>>

\* request.get_json() raises on a body that is not JSON (415 or 400,
\* caught by the route's except as any exception)
GetJsonRaises ==
    /\ hpc = "received"
    /\ hreq.endpoint \in PostEndpoints
    /\ hreq.body.kind = "nojson"
    /\ RouteExcept
    /\ UNCHANGED <<hreq, hdata, extractor_calls>>
    /\ UNCHANGED <<clock, dir, dpc, dargs, dsafe, downloaded_files, dresult, produced>>
    /\ UNCHANGED notDH

\* The checks between get_json and the call of the downloader
ValidateRequest ==
    /\ hpc = "parsed"
    /\ LET v == Validation(hreq.endpoint, hdata, hreq.body)
       IN  IF v = "raises"
           THEN RouteExcept
           ELSE /\ IF v = ""
                   THEN hpc' = "validated" /\ response' = response
                   ELSE /\ hpc' = "responded"
                        /\ response' = Error(400, ValidationMessage(hreq.endpoint, v))
                /\ log' = log
    /\ UNCHANGED <<hreq, hdata, extractor_calls>>
    /\ UNCHANGED <<clock, dir, dpc, dargs, dsafe, downloaded_files, dresult, produced>>
    /\ UNCHANGED notDH

\* get_video_info: downloader.get_video_info(url) returned the metadata and
\* the formatting of duration and views went through
GetVideoInfoOk ==
    /\ hpc = "validated"
    /\ hreq.endpoint = "get_video_info"
    /\ extractor_calls' = extractor_calls + 1
    /\ response' = Ok
    /\ hpc' = "responded"
    /\ UNCHANGED <<hreq, hdata>>
    /\ UNCHANGED <<dvars, notDH>>

\* get_video_info: downloader.get_video_info(url) returned None: the extractor
\* gave nothing, or raised and the downloader logged it
GetVideoInfoNone ==
    /\ hpc = "validated"
    /\ hreq.endpoint = "get_video_info"
    /\ extractor_calls' = extractor_calls + 1
    /\ \E raised \in BOOLEAN : log' = IF raised THEN log \cup {ExcText} ELSE log
    /\ response' = Error(400, <<"Unable to fetch video information. Please check the URL and try again.">>)
    /\ hpc' = "responded"
    /\ UNCHANGED <<hreq, hdata>>
    /\ UNCHANGED <<clock, dir, dpc, dargs, dsafe, downloaded_files, dresult, produced>>
    /\ UNCHANGED notDH

\* get_video_info: format_duration raises on a duration that is a float
\* (f"{minutes:02d}"), in the route, behind the extractor call
GetVideoInfoFormatRaises ==
    /\ hpc = "validated"
    /\ hreq.endpoint = "get_video_info"
    /\ extractor_calls' = extractor_calls + 1
    /\ RouteExcept
    /\ UNCHANGED <<hreq, hdata>>
    /\ UNCHANGED <<clock, dir, dpc, dargs, dsafe, downloaded_files, dresult, produced>>
    /\ UNCHANGED notDH

\* download: get_direct_download_url refuses the video type without asking
\* the extractor
DirectVideoRefused ==
    /\ hpc = "validated"
    /\ hreq.endpoint = "download"
    /\ DownloadType(hreq.body.download_type) = S_video
    /\ response' = Error(400, <<"Direct download not supported for videos with audio. Using server download.">>)
    /\ hpc' = "responded"
    /\ UNCHANGED <<hreq, hdata, extractor_calls>>
    /\ UNCHANGED <<dvars, notDH>>

\* download: get_direct_download_url finds the audio url, or returns one of
\* its failures
DirectAudio ==
    /\ hpc = "validated"
    /\ hreq.endpoint = "download"
    /\ DownloadType(hreq.body.download_type) # S_video
    /\ extractor_calls' = extractor_calls + 1
    /\ \/ response' = Ok
       \/ \E e \in DirectFailures : response' = Error(400, e)
    /\ hpc' = "responded"
    /\ UNCHANGED <<hreq, hdata>>
    /\ UNCHANGED <<dvars, notDH>>

\* download: the extractor raises inside get_direct_download_url, whose
\* except logs it and returns it in the error the route passes on
DirectAudioRaises ==
    /\ hpc = "validated"
    /\ hreq.endpoint = "download"
    /\ DownloadType(hreq.body.download_type) # S_video
    /\ extractor_calls' = extractor_calls + 1
    /\ log' = log \cup {ExcText}
    /\ response' = Error(400, <<"Failed to get download URL: ", ExcText>>)
    /\ hpc' = "responded"
    /\ UNCHANGED <<hreq, hdata>>
    /\ UNCHANGED <<clock, dir, dpc, dargs, dsafe, downloaded_files, dresult, produced>>
    /\ UNCHANGED notDH

\* server_download: downloader.download_video(url, format_id, download_type)
\* is entered
ServerDownloadCall ==
    /\ hpc = "validated"
    /\ hreq.endpoint = "server_download"
    /\ dpc["c1"] = "idle"
    /\ dpc' = [dpc EXCEPT !["c1"] = "start"]
    /\ dargs' = [dargs EXCEPT !["c1"] =
                    [download_type |->
                        IF DownloadType(hreq.body.download_type) = S_audio
                        THEN "audio" ELSE "video"]]
    /\ hpc' = "calling"
    /\ UNCHANGED <<hreq, hdata, response, extractor_calls>>
    /\ UNCHANGED <<clock, dir, log, dsafe, downloaded_files, dresult, produced>>
    /\ UNCHANGED notDH

\* server_download: the result of download_video is answered
ServerDownloadRespond ==
    /\ hpc = "calling"
    /\ dpc["c1"] = "done"
    /\ response' = IF dresult["c1"].success THEN Ok ELSE Error(400, dresult["c1"].error)
    /\ hpc' = "responded"
    /\ UNCHANGED <<hreq, hdata, extractor_calls>>
    /\ UNCHANGED <<dvars, notDH>>

\* download_file: 404 for a file that is not there, else the file is sent
DownloadFile ==
    /\ hpc = "received"
    /\ hreq.endpoint = "download_file"
    /\ response' = IF hreq.filename \in DOMAIN dir THEN Ok
                   ELSE Error(404, <<"File not found">>)
    /\ hpc' = "responded"
    /\ UNCHANGED <<hreq, hdata, extractor_calls>>
    /\ UNCHANGED <<dvars, notDH>>

\* download_file: send_file raises
DownloadFileRaises ==
    /\ hpc = "received"
    /\ hreq.endpoint = "download_file"
    /\ hreq.filename \in DOMAIN dir
    /\ RouteExcept
    /\ UNCHANGED <<hreq, hdata, extractor_calls>>
    /\ UNCHANGED <<clock, dir, dpc, dargs, dsafe, downloaded_files, dresult, produced>>
    /\ UNCHANGED notDH

HttpNext ==
    \/ GetJson
    \/ GetJsonRaises
    \/ ValidateRequest
    \/ GetVideoInfoOk
    \/ GetVideoInfoNone
    \/ GetVideoInfoFormatRaises
    \/ DirectVideoRefused
    \/ DirectAudio
    \/ DirectAudioRaises
    \/ ServerDownloadCall
    \/ ServerDownloadRespond
    \/ DownloadFile
    \/ DownloadFileRaises
    \/ DownloadNext

\* ------------------------------------------------------------------------
\* Specifications
\* ------------------------------------------------------------------------

InitFormats ==
    FormatsInit /\ TitleIdle /\ DurationIdle /\ UrlIdle /\ DownloadIdle /\ HttpIdle
InitTitle ==
    TitleInit /\ FormatsIdle /\ DurationIdle /\ UrlIdle /\ DownloadIdle /\ HttpIdle
InitDuration ==
    DurationInit /\ FormatsIdle /\ TitleIdle /\ UrlIdle /\ DownloadIdle /\ HttpIdle
InitUrl ==
    UrlInit /\ FormatsIdle /\ TitleIdle /\ DurationIdle /\ DownloadIdle /\ HttpIdle
InitDownload ==
    DownloadInit /\ FormatsIdle /\ TitleIdle /\ DurationIdle /\ UrlIdle /\ HttpIdle
InitHttp ==
    HttpInit /\ HttpDownloadInit /\ FormatsIdle /\ TitleIdle /\ DurationIdle /\ UrlIdle

SpecFormats == InitFormats /\ [][FormatsNext]_vars
SpecTitle == InitTitle /\ [][TitleNext]_vars
SpecDuration == InitDuration /\ [][DurationNext]_vars
SpecUrl == InitUrl /\ [][UrlNext]_vars
SpecDownload == InitDownload /\ [][DownloadNext]_vars
SpecHttp == InitHttp /\ [][HttpNext]_vars

\* ------------------------------------------------------------------------
\* Properties of get_video_info
\* ------------------------------------------------------------------------

Returned == video_info.returned = "info"
Result == video_info.formats

\* A raw format that passes the filter and the classification
Survives(fmt) == ~Unusable(fmt) /\ Branch(fmt) # "skip"

\* The deduplication key as the triple (type, quality label, ext)
Triple(fmt) == <<FormatType(fmt), Quality(fmt), fmt.ext>>
EntryTriple(e) == <<e.type, e.quality, e.ext>>

\* The indices of the surviving raw formats that share i's triple
Group(i) ==
    {j \in 1..Len(formats) : Survives(formats[j]) /\ Triple(formats[j]) = Triple(formats[i])}

\* C1: the returned formats list holds at most one entry per deduplication
\* key: no two entries agree on type, quality and ext.
C1_OneEntryPerKey ==
    Returned =>
        \A i, j \in 1..Len(Result) :
            i # j => EntryTriple(Result[i]) # EntryTriple(Result[j])

\* Two surviving raw formats shared a key and a list was returned
C1_Witness ==
    /\ Returned
    /\ \E i \in 1..Len(formats) : Survives(formats[i]) /\ Cardinality(Group(i)) >= 2
    /\ Len(Result) >= 2

\* The size of a raw format as the claim scores it: the file size when it is
\* known and nonzero (the exact one, else the approximate one)
KnownSize(fmt) ==
    IF fmt.filesize # NoneVal /\ fmt.filesize # 0 THEN fmt.filesize
    ELSE IF fmt.filesize_approx # NoneVal /\ fmt.filesize_approx # 0
         THEN fmt.filesize_approx
         ELSE 0

\* score = filesize if known and nonzero, else bitrate x 1000, else 0
ClaimScore(fmt) ==
    IF KnownSize(fmt) # 0 THEN KnownSize(fmt)
    ELSE IF fmt.tbr # NoneVal /\ fmt.tbr # 0 THEN fmt.tbr * 1000
    ELSE 0

\* i is the first raw format of its group that has the group's highest score
Wins(i) ==
    /\ Survives(formats[i])
    /\ \A j \in Group(i) : ClaimScore(formats[j]) <= ClaimScore(formats[i])
    /\ \A j \in Group(i) : j < i => ClaimScore(formats[j]) < ClaimScore(formats[i])

\* Entry e was taken from raw format fmt
TakenFrom(e, fmt) ==
    /\ EntryTriple(e) = Triple(fmt)
    /\ e.format_id = fmt.format_id
    /\ e.filesize = KnownSize(fmt)
    /\ e.tbr = fmt.tbr
    /\ e.height = fmt.height

WithAudio(e) ==
    /\ Len(e.quality) >= Len(S_with_audio)
    /\ Drop(e.quality, Len(e.quality) - Len(S_with_audio)) = S_with_audio

\* C3: every video entry precedes every audio entry; among the video
\* entries every "(with audio)" entry precedes every video-only entry; and
\* within either kind a greater height never comes after a smaller one.
C3_SortOrder ==
    Returned =>
        \A i, j \in 1..Len(Result) :
            i < j =>
                /\ ~(Result[i].type = S_audio /\ Result[j].type = S_video)
                /\ (Result[i].type = S_video /\ Result[j].type = S_video) =>
                      /\ ~(~WithAudio(Result[i]) /\ WithAudio(Result[j]))
                      /\ (WithAudio(Result[i]) = WithAudio(Result[j])) =>
                            Result[i].height >= Result[j].height

\* 720p with audio ahead of 1080p video-only, although the raw list had the
\* 1080p format first, and an audio entry behind both
C3_Witness ==
    /\ Returned
    /\ Len(Result) = 3
    /\ WithAudio(Result[1]) /\ Result[1].height = 720
    /\ ~WithAudio(Result[2]) /\ Result[2].type = S_video /\ Result[2].height = 1080
    /\ Result[3].type = S_audio
    /\ formats[1].height = 1080

\* The raw format has a video codec and a height of at least 144
UsableVideo(fmt) ==
    fmt.vcodec # S_none /\ fmt.height # NoneVal /\ fmt.height >= 144

\* The raw format has an audio codec and no video codec
UsableAudio(fmt) == fmt.acodec # S_none /\ fmt.vcodec = S_none

\* The raw format has no id or the id of a storyboard stream
Discarded(fmt) ==
    \/ fmt.format_id = <<>>
    \/ (Len(fmt.format_id) >= 2 /\ fmt.format_id[1] = "s" /\ fmt.format_id[2] = "b")

\* The label of a video entry of height h
VideoLabel(h, audio) ==
    IF audio THEN IntToStr(h) \o <<"p", " ", "(", "w", "i", "t", "h", " ",
                                  "a", "u", "d", "i", "o", ")">>
    ELSE IntToStr(h) \o <<"p">>

\* Entry e carries the id, container and height of raw format fmt
DerivesFrom(e, fmt) ==
    e.format_id = fmt.format_id /\ e.ext = fmt.ext /\ e.height = fmt.height

\* C11: every returned entry derives from a raw candidate that passes the
\* filter and the classification: the id is non-empty and no storyboard id;
\* a video entry's candidate has a video codec and height >= 144 and the
\* label "{height}p (with audio)" exactly when it also has an audio codec,
\* "{height}p" otherwise; an audio entry's candidate has an audio codec and
\* no video codec.  A candidate with neither usable video nor audio, also one
\* with a video codec and a height below 144, gives no entry.
C11_EntriesPassFilter ==
    Returned =>
        /\ \A k \in 1..Len(Result) :
              /\ Result[k].format_id # <<>>
              /\ Result[k].type \in {S_video, S_audio}
              /\ \E i \in 1..Len(formats) :
                    LET fmt == formats[i]
                    IN  /\ DerivesFrom(Result[k], fmt)
                        /\ ~Discarded(fmt)
                        /\ Result[k].type = S_video =>
                              /\ UsableVideo(fmt)
                              /\ Result[k].quality =
                                    VideoLabel(fmt.height, fmt.acodec # S_none)
                        /\ Result[k].type = S_audio => UsableAudio(fmt)
        /\ \A i \in 1..Len(formats) :
              (Discarded(formats[i]) \/ (~UsableVideo(formats[i]) /\ ~UsableAudio(formats[i])))
                  => \A k \in 1..Len(Result) : ~DerivesFrom(Result[k], formats[i])

\* A list was returned with an entry labelled "(with audio)" from a raw list
\* that also held a storyboard format and a video format below 144
C11_Witness ==
    /\ Returned
    /\ \E k \in 1..Len(Result) : Result[k].quality = VideoLabel(720, TRUE)
    /\ \E i \in 1..Len(formats) : Discarded(formats[i]) /\ formats[i].format_id # <<>>
    /\ \E i \in 1..Len(formats) :
          /\ ~Discarded(formats[i])
          /\ formats[i].vcodec # S_none
          /\ formats[i].height # NoneVal /\ formats[i].height < 144

\* The sort key does not separate two entries: both audio, or both video
\* with the same audio presence and the same height
Unseparated(a, b) ==
    \/ a.type = S_audio /\ b.type = S_audio
    \/ /\ a.type = S_video /\ b.type = S_video
       /\ WithAudio(a) = WithAudio(b)
       /\ a.height = b.height

\* The index of the raw candidate the k-th entry was taken from: of the
\* entry's key, the first candidate of the highest score
TakenAt(k) ==
    CHOOSE i \in 1..Len(formats) :
        Wins(i) /\ Triple(formats[i]) = EntryTriple(Result[k])

\* The index of the first surviving raw candidate of the k-th entry's key
FirstSeenAt(k) ==
    CHOOSE i \in 1..Len(formats) :
        /\ Survives(formats[i])
        /\ Triple(formats[i]) = EntryTriple(Result[k])
        /\ \A j \in Group(i) : i <= j

\* Entries the sort key does not separate stand in the order of the raw
\* candidates they were taken from
C12_Original ==
    Returned =>
        \A a, b \in 1..Len(Result) :
            (a < b /\ Unseparated(Result[a], Result[b])) => TakenAt(a) < TakenAt(b)

\* C12: entries that the sort key does not separate (two audio entries, two
\* video entries of the same audio presence and height) stand in the order
\* in which their keys first occur among the surviving raw candidates: an
\* entry that replaced an earlier candidate of its key keeps that
\* candidate's place.  Audio entries are not re-sorted, the video sort is
\* stable.
C12_FirstSeenOrder ==
    Returned =>
        \A a, b \in 1..Len(Result) :
            (a < b /\ Unseparated(Result[a], Result[b])) => FirstSeenAt(a) < FirstSeenAt(b)

\* Two entries the sort key does not separate, the first of them taken from
\* a candidate behind the other's: it replaced an earlier one of its key
C12_Witness ==
    /\ Returned
    /\ \E a, b \in 1..Len(Result) :
          /\ a < b
          /\ Unseparated(Result[a], Result[b])
          /\ TakenAt(a) > TakenAt(b)
          /\ FirstSeenAt(a) < TakenAt(b)

\* ------------------------------------------------------------------------
\* Properties of the filename stem
\* ------------------------------------------------------------------------

\* The title without the characters outside word/whitespace/hyphen, without
\* its surrounding whitespace
Trimmed(t) ==
    LET kept == SelectSeq(t, LAMBDA c : IsWord(c) \/ IsSpace(c) \/ c = "-")
        inner == {i \in 1..Len(kept) : ~IsSpace(kept[i])}
    IN  IF inner = {} THEN <<>>
        ELSE SubSeq(kept,
                    CHOOSE a \in inner : \A i \in inner : a <= i,
                    CHOOSE b \in inner : \A i \in inner : i <= b)

\* Each maximal run of whitespace and hyphens of s replaced by one
\* underscore: a run's first character becomes the underscore, its other
\* characters go
Collapsed(s) ==
    LET marks == [i \in 1..Len(s) |->
                    IF ~IsSeparator(s[i]) THEN s[i]
                    ELSE IF i = 1 \/ ~IsSeparator(s[i - 1]) THEN "_"
                    ELSE "gone"]
    IN  SelectSeq(marks, LAMBDA c : c # "gone")

S_AmazingStem ==
    <<"A", "m", "a", "z", "i", "n", "g", "_", "V", "i", "d", "e", "o", "_",
      "2", "0", "2", "4">>

\* C8: the stem is the title with the characters outside
\* word/whitespace/hyphen removed, trimmed, each maximal run of whitespace
\* and hyphens replaced by one underscore, cut to 50 characters; so it is at
\* most 50 long and holds no whitespace, hyphen or non-word character, and
\* 'Amazing Video!! (2024)' gives 'Amazing_Video_2024'.
C8_StemOfTitle ==
    tpc = "done" =>
        /\ stem = Take(Collapsed(Trimmed(title)), 50)
        /\ Len(stem) <= 50
        /\ \A i \in 1..Len(stem) : IsWord(stem[i]) /\ ~IsSpace(stem[i]) /\ stem[i] # "-"
        /\ title = S_AmazingTitle => stem = S_AmazingStem

\* A title over the limit with a run of two separators: the run became one
\* underscore and the text, still over the limit, was cut to 50
C8_Witness ==
    /\ tpc = "done"
    /\ Len(title) > 50
    /\ \E i \in 1..(Len(title) - 1) : IsSeparator(title[i]) /\ IsSeparator(title[i + 1])
    /\ Len(Collapsed(Trimmed(title))) > 50
    /\ Len(stem) = 50
    /\ Cardinality({i \in 1..Len(stem) : stem[i] = "_"}) = 1

\* ------------------------------------------------------------------------
\* Properties of format_duration
\* ------------------------------------------------------------------------

\* The fields of s between its colons
RECURSIVE ColonFields(_)
ColonFields(s) ==
    IF ":" \notin Range(s) THEN <<s>>
    ELSE <<SplitFirst(s, ":")>> \o ColonFields(Drop(s, Len(SplitFirst(s, ":")) + 1))

AllDigits(s) == \A i \in 1..Len(s) : IsDigit(s[i])

\* C9: 'Unknown' when d <= 0; 'MM:SS' with MM = d div 60, SS = d mod 60
\* when 0 < d < 3600; 'HH:MM:SS' with HH = d div 3600,
\* MM = (d mod 3600) div 60, SS = d mod 60 when d >= 3600, each field
\* zero-padded to two digits; 45 gives '00:45', 3725 gives '01:02:05'; MM and
\* SS are below 60 and the fields recompose to d.
C9_DurationFormat ==
    upc = "done" =>
        LET d == duration_seconds
            f == ColonFields(formatted)
        IN  /\ d <= 0 => formatted = S_Unknown
            /\ (0 < d /\ d < 3600) =>
                  /\ Len(f) = 2
                  /\ Len(f[1]) = 2 /\ Len(f[2]) = 2
                  /\ AllDigits(f[1]) /\ AllDigits(f[2])
                  /\ StrToInt(f[1]) = d \div 60
                  /\ StrToInt(f[2]) = d % 60
                  /\ StrToInt(f[1]) < 60 /\ StrToInt(f[2]) < 60
                  /\ 60 * StrToInt(f[1]) + StrToInt(f[2]) = d
            /\ d >= 3600 =>
                  /\ Len(f) = 3
                  /\ Len(f[1]) >= 2 /\ Len(f[2]) = 2 /\ Len(f[3]) = 2
                  /\ AllDigits(f[1]) /\ AllDigits(f[2]) /\ AllDigits(f[3])
                  /\ StrToInt(f[1]) = d \div 3600
                  /\ StrToInt(f[2]) = (d % 3600) \div 60
                  /\ StrToInt(f[3]) = d % 60
                  /\ StrToInt(f[2]) < 60 /\ StrToInt(f[3]) < 60
                  /\ 3600 * StrToInt(f[1]) + 60 * StrToInt(f[2]) + StrToInt(f[3]) = d
            /\ d = 45 => formatted = <<"0", "0", ":", "4", "5">>
            /\ d = 3725 => formatted = <<"0", "1", ":", "0", "2", ":", "0", "5">>

\* 3725 seconds were formatted with an hours field
C9_Witness ==
    /\ upc = "done"
    /\ duration_seconds = 3725
    /\ Len(ColonFields(formatted)) = 3

\* ------------------------------------------------------------------------
\* Properties of is_valid_youtube_url
\* ------------------------------------------------------------------------

\* u begins, in any letter case, with p followed by an identifier character
BeginsWithShape(u, p) ==
    /\ Len(u) > Len(p)
    /\ Lower(Take(u, Len(p))) = Lower(p)
    /\ IsIdChar(u[Len(p) + 1])

ClaimSchemes == {<<>>, S_http \o S_colon_slashes, S_http \o <<"s">> \o S_colon_slashes}

\* The four shapes with the scheme and the www. prefix optional for each
ShapesWwwEverywhere ==
    {sc \o w \o h : sc \in ClaimSchemes, w \in {<<>>, S_www_dot},
                    h \in {S_watch, S_youtu_be, S_shorts, S_embed}}

\* The four shapes with the www. prefix optional for the youtube.com shapes
\* and absent from the youtu.be short link
ShapesWwwYoutubeCom ==
    {sc \o w \o h : sc \in ClaimSchemes, w \in {<<>>, S_www_dot},
                    h \in {S_watch, S_shorts, S_embed}}
        \cup {sc \o S_youtu_be : sc \in ClaimSchemes}

\* C10 as stated: true exactly for the strings that begin, in any letter
\* case, with one of the four shapes (watch page with a v= identifier,
\* youtu.be short link, shorts, embed), scheme and www. prefix optional.
C10_Original ==
    vpc = "done" => (valid <=> \E p \in ShapesWwwEverywhere : BeginsWithShape(url, p))

\* C10 as amended: true exactly for the strings that begin, in any letter
\* case, with one of the four shapes followed by an identifier character,
\* the scheme optional for all four and the www. prefix optional for the
\* three youtube.com shapes only; false for every other string.
C10_ValidIffShape ==
    vpc = "done" => (valid <=> \E p \in ShapesWwwYoutubeCom : BeginsWithShape(url, p))

\* An upper-case https watch URL with www. was accepted
C10_Witness ==
    /\ vpc = "done"
    /\ valid
    /\ \E i \in 1..Len(url) : IsUpper(url[i])
    /\ StartsWith(Lower(url), S_http \o <<"s">> \o S_colon_slashes \o S_www_dot \o S_watch)

\* ------------------------------------------------------------------------
\* Properties of download_video
\* ------------------------------------------------------------------------

\* Call c listed the file call o produced later than c produced its own,
\* under another name, and c has returned
Overtaken(c, o) ==
    /\ c # o
    /\ dpc[c] = "done"
    /\ dresult[c].success
    /\ produced[c].name # <<>>
    /\ produced[o].name # <<>>
    /\ produced[o].name # produced[c].name
    /\ produced[o].at > produced[c].at
    /\ produced[o].name \in downloaded_files[c]

\* C4: two concurrent download_video calls share the downloads directory, and
\* the scan picks by recency alone: a call that lists the file the other call
\* produced after its own returns the other call's filename, and that
\* interleaving is reachable.
C4_ReturnsTheOthersFile ==
    \A c, o \in Calls :
        Overtaken(c, o) => dresult[c].filename = produced[o].name

\* A call returned the filename of the file the other call produced
C4_Witness ==
    \E c, o \in Calls :
        /\ Overtaken(c, o)
        /\ dresult[c].filename = produced[o].name
        /\ dresult[c].filename # produced[c].name

\* The files of the directory other than the placeholder
NonPlaceholder == {f \in DOMAIN dir : f # S_gitkeep}

\* f is a file of the set than which none has a later timestamp
MostRecentOf(f, files) == f \in files /\ \A g \in files : dir[g] <= dir[f]

\* C5: after the extractor's download step returned, download_video lists
\* the non-placeholder files of the directory whose age is under 120
\* seconds and returns success with the most recently timestamped of them;
\* when there is none, success with the most recently timestamped
\* non-placeholder file of the whole directory; and a failure only when the
\* directory holds no file other than the placeholder.
C5_ScanResult ==
    [][\A c \in Calls :
          /\ (dpc[c] = "downloaded" /\ dpc'[c] = "listed") =>
                downloaded_files'[c] = {f \in NonPlaceholder : clock - dir[f] < 120}
          /\ (dpc[c] = "listed" /\ dpc'[c] = "done") =>
                IF downloaded_files[c] # {}
                THEN /\ dresult'[c].success
                     /\ MostRecentOf(dresult'[c].filename, downloaded_files[c])
                ELSE IF NonPlaceholder # {}
                     THEN /\ dresult'[c].success
                          /\ MostRecentOf(dresult'[c].filename, NonPlaceholder)
                     ELSE ~dresult'[c].success
      ]_vars

\* The extractor produced no new file and the only other file is older than
\* two minutes: the call still reports success, with that old file
C5_Witness ==
    \E c \in Calls :
        /\ dpc[c] = "done"
        /\ produced[c] = NotProduced
        /\ downloaded_files[c] = {}
        /\ dresult[c].success
        /\ dresult[c].filename = S_old_file
        /\ clock - dir[S_old_file] >= 120

\* ------------------------------------------------------------------------
\* Properties of the routes
\* ------------------------------------------------------------------------

\* The response carries the text of an exception
Leaks == ExcText \in Range(response.error)

\* C6: whatever exception is raised while a request is handled, in the
\* extractor calls or in the handler, the response carries a generic message
\* and never the text of the exception, which goes to the server log only.
C6_NoExceptionText ==
    (hpc = "responded" /\ log # {}) => ~Leaks

\* The request is invalid as input: no JSON body or a null one, the url
\* missing or empty, the format_id missing or empty (download and
\* server_download), or a url that is_valid_youtube_url rejects
InvalidInput ==
    /\ hreq.endpoint \in PostEndpoints
    /\ \/ hreq.body.kind \in {"nojson", "null"}
       \/ hreq.body.url = Missing
       \/ hreq.body.url = Str(<<>>)
       \/ /\ hreq.endpoint # "get_video_info"
          /\ hreq.body.format_id \in {Missing, Str(<<>>)}
       \/ /\ hreq.body.url.type = "str"
          /\ ~is_valid_youtube_url(hreq.body.url.text)
          /\ ~is_valid_youtube_url(Strip(hreq.body.url.text))

\* C7: every request to get_video_info, download or server_download that is
\* invalid as input is answered with status 400 and an error message, never
\* with 500 and never with a success payload.
C7_InvalidInputIs400 ==
    (hpc = "responded" /\ InvalidInput) =>
        /\ response.status = 400
        /\ ~response.success
        /\ response.error # <<>>

\* The request's url, trimmed, is accepted by is_valid_youtube_url and the
\* fields the endpoint requires are present
Accepted ==
    /\ hreq.endpoint \in PostEndpoints
    /\ hreq.body.kind = "dict"
    /\ hreq.body.url.type = "str"
    /\ is_valid_youtube_url(Strip(hreq.body.url.text))
    /\ hreq.endpoint # "get_video_info" =>
          (hreq.body.format_id.type = "str" /\ hreq.body.format_id.text # <<>>)

\* C13: while a get_video_info, download or server_download request is
\* handled, the external extractor is invoked only once validation is over
\* and only for a request whose url is_valid_youtube_url accepted and whose
\* required fields are present; the downloads directory changes under the
\* same condition only, and the step that rejects a request at validation
\* ends it with no extractor call made and the directory as it was.
C13_ExtractorAfterValidation ==
    [][/\ extractor_calls' # extractor_calls =>
             (Accepted /\ hpc \in {"validated", "calling"})
       /\ dir' # dir => (Accepted /\ hpc = "calling")
       /\ (hpc = "parsed" /\ hpc' = "responded") =>
             (extractor_calls' = 0 /\ dir' = dir)
       /\ (hpc' = "responded" /\ ~Accepted) => extractor_calls' = 0]_vars

\* A server_download request passed validation, the extractor was invoked
\* for the title and for the download, and its file is in the directory
C13_Witness ==
    /\ hreq.endpoint = "server_download"
    /\ Accepted
    /\ hpc = "responded"
    /\ extractor_calls = 2
    /\ produced["c1"].name \in DOMAIN dir

====
